---- MODULE Spec2Model ----
(***************************************************************************)
(* Plyxor chat client (src/App.tsx) against its Firestore collections:     *)
(* the matchmaking queue and session pointers (startSearch, the passive    *)
(* match listener, handleSkip), the room feeds (setupRoomListener, the     *)
(* one-on-one session listener) and presence (the online_users query).     *)
(*                                                                         *)
(* Store side: queue, users (session pointers), messages, online_users.    *)
(* Client side: the one-on-one fields of the `rooms` React state of every  *)
(* client and, for the observing client Self, the message lists, unread    *)
(* counters, mute flags, foreground room, blocked list and peer map.       *)
(***************************************************************************)
EXTENDS Integers, Sequences, FiniteSets, Bags, TLC

\* ------------------------------------------------------------------ bounds
MaxSessions == 2    \* session ids that startSearch may generate
MaxStamp    == 2    \* Date.now() readings of one client that reach the queue
MaxMsgs     == 2    \* documents ever written to the messages collection
MaxTs       == 2    \* Date.now() readings that reach message documents
FeedLimit   == 2    \* limit(100) of the message queries, scaled down
MaxTicks    == 20   \* seconds of wall-clock time in the presence model
MaxStored   == 3    \* messages of a room's history written before Self subscribes
MaxTranslations == 1    \* handleTranslateMessage invocations in flight at a time
MaxEcho     == 1    \* echo timeouts of demo sends pending at a time
MaxDemoMsgs == 2    \* simulated world messages, and own demo messages, in the lists
MaxDemoTicks == 9   \* seconds of wall-clock time in the demo model
MaxDemoClock == 3000 \* last millisecond of the demo conversation model

\* ------------------------------------------------------------------ domains
Users == {"alice", "bob", "carol"}
Self == "alice"
NoUser == "nobody"
NoSession == 0

\* RoomType (src/types.ts)
RoomTypes == {"WORLD", "COUNTRY", "STATE", "ONE_ON_ONE"}
BroadcastRooms == {"WORLD", "COUNTRY", "STATE"}

\* The profiles given at login: alice and bob are neighbours, carol lives in
\* another state of the same country.
Country(u) == "BR"
State(u) == IF u = "carol" THEN "RJ" ELSE "SP"

\* Firestore orders equal timestamps by document id; uid order is fixed.
UidRank(u) == CASE u = "alice" -> 1 [] u = "bob" -> 2 [] OTHER -> 3

VARIABLES
    queue,         \* collection 'queue':  uid -> timestamp, 0 when no document
    users,         \* collection 'users':  uid -> session pointer document
    nextSession,   \* number of session ids generated so far
    oneOnOne,      \* rooms[ONE_ON_ONE] of every client: isSearching, sessionId, connectedPartner
    calls,         \* startSearch invocations in flight, per client
    clock,         \* the last Date.now() a client wrote to the queue (its clock only grows)
    leftSession,   \* history: the session a client's latest handleSkip tore down, 0 if none
    messages,      \* collection 'messages'
    roomMessages,  \* Self: rooms[r].messages
    unreadCount,   \* Self: rooms[r].unreadCount
    muted,         \* Self: rooms[r].muted
    activeRoom,    \* Self: activeRoom
    activeRoomRef, \* Self: activeRoomRef.current
    blockedUsers,  \* Self: blockedUsers
    snapshot,      \* Self: the documents the message listener of r has delivered so far
    now,           \* wall-clock time, ms
    online,        \* collection 'online_users': uid -> lastActive, -1 when no document
    beat,          \* when a client's heartbeat interval fires next, -1 when it has none
    queryFloor,    \* Self: the bound of where('lastActive', '>', ...) as the query was built
    onlineUsersMap, \* Self: onlineUsersMap, username -> timestamp
    isDemoMode,    \* Self: isDemoMode
    firebaseUid,   \* Self: firebaseUid, NoUser when null
    user,          \* Self: the login profile, NoUser when null
    authState,     \* what the auth object of Self's page is doing
    logout,        \* Self: where an invocation of handleLogout stands
    timers,        \* Self: the demo timers that are armed (due time, -1 when not armed)
    alerts,        \* Self: ids of the messages a Notification was raised for
    translating    \* Self: handleTranslateMessage invocations in flight

matchVars == <<queue, users, nextSession, oneOnOne, calls, clock, leftSession>>
feedVars == <<messages, roomMessages, unreadCount, muted, activeRoom, activeRoomRef,
              blockedUsers, snapshot>>
presenceVars == <<now, online, beat, queryFloor, onlineUsersMap>>
appVars == <<isDemoMode, firebaseUid, user, authState, logout, timers, alerts, translating>>
vars == <<matchVars, feedVars, presenceVars, appVars>>

\* ------------------------------------------------------------------ documents
NoPointer == [status |-> "none", sessionId |-> NoSession, partner |-> NoUser]

\* setDoc(myUserDocRef, {status: 'searching', sessionId: null, profile})
SearchingPointer == [status |-> "searching", sessionId |-> NoSession, partner |-> NoUser]

\* the fields transaction.update writes on a match
MatchedPointer(sid, p) == [status |-> "matched", sessionId |-> sid, partner |-> p]

IdleRoom == [isSearching |-> FALSE, sessionId |-> NoSession, connectedPartner |-> NoUser]

\* ------------------------------------------------------------------ the queue query
QueueDocs(q) == {u \in Users : q[u] # 0}

Before(q, a, b) == q[a] < q[b] \/ (q[a] = q[b] /\ UidRank(a) <= UidRank(b))

\* query(queueRef, orderBy('timestamp', 'asc'), limit(1)): the one earliest
\* document of the whole collection, the caller's own included.
EarliestDoc(q) ==
    IF QueueDocs(q) = {} THEN NoUser
    ELSE CHOOSE a \in QueueDocs(q) : \A b \in QueueDocs(q) : Before(q, a, b)

\* querySnapshot.forEach: the document counts only if it is not the caller's.
Candidate(q, u) == IF EarliestDoc(q) # u THEN EarliestDoc(q) ELSE NoUser

\* ------------------------------------------------------------------ calls in flight
\* A startSearch invocation between its awaits: at "setDoc" the pointer write is
\* pending, at "read" the transaction callback has not run yet, at "commit" the
\* callback has buffered its writes (a match with partner and sid, or the
\* caller's own queue document). seen is the timestamp of the candidate's
\* queue document as the callback read it.
Call(stage, p, sid, seen) == [stage |-> stage, partner |-> p, sid |-> sid, seen |-> seen]

AddCall(b, c) == b (+) SetToBag({c})
DropCall(b, c) == b (-) SetToBag({c})
InFlight(u) == BagToSet(calls[u])

\* A pending local set() shadows the server document in the client's own
\* snapshot listener until it is acknowledged.
PendingSetDoc(u) == \E c \in InFlight(u) : c.stage = "setDoc"

\* ------------------------------------------------------------------ message rooms
\* The roomId a client of user u reads and writes for room type r: 'WORLD_CHAT',
\* `COUNTRY_${country}`, `STATE_${state}_${country}`, or the session id.
RoomId(scope, country, state, sid) ==
    [scope |-> scope, country |-> country, state |-> state, session |-> sid]

RoomIdOf(u, r) ==
    CASE r = "WORLD"   -> RoomId("WORLD_CHAT", "", "", NoSession)
      [] r = "COUNTRY" -> RoomId("COUNTRY", Country(u), "", NoSession)
      [] r = "STATE"   -> RoomId("STATE", Country(u), State(u), NoSession)
      [] OTHER         -> RoomId("session", "", "", oneOnOne[u].sessionId)

\* Message texts are strings, modelled as sequences of characters; a username
\* as the characters typed on the login screen.
Name(u) ==
    CASE u = "alice" -> <<"a", "l", "i", "c", "e">>
      [] u = "bob"   -> <<"b", "o", "b">>
      [] OTHER       -> <<"c", "a", "r", "o", "l">>

\* String.prototype.includes
Includes(text, part) ==
    \E i \in 1..(Len(text) - Len(part) + 1) : SubSeq(text, i, i + Len(part) - 1) = part

PlainText == <<"h", "i">>
MentionText(u) == <<"@">> \o Name(u) \o <<" ">> \o PlainText

\* The value of Message.translation while no translation was stored.
Undefined == <<"undefined">>

\* A document of 'messages' and the Message the listeners build from it.
Message(id, sender, t, rid, text) ==
    [id |-> id, sender |-> sender, timestamp |-> t, roomId |-> rid, text |-> text,
     translation |-> Undefined, replyTo |-> {}]

\* where('roomId', '==', roomId), orderBy('timestamp', 'asc'), limit(100)
Earlier(a, b) == a.timestamp < b.timestamp \/ (a.timestamp = b.timestamp /\ a.id < b.id)

InRoom(docs, rid) == {m \in docs : m.roomId = rid}

QueryResult(docs, rid) ==
    {m \in InRoom(docs, rid) :
        Cardinality({x \in InRoom(docs, rid) : Earlier(x, m)}) < FeedLimit}

\* snapshot.docChanges() lists the added documents in query order.
RECURSIVE InQueryOrder(_)
InQueryOrder(S) ==
    IF S = {} THEN <<>>
    ELSE LET first == CHOOSE m \in S : \A x \in S \ {m} : Earlier(m, x)
         IN <<first>> \o InQueryOrder(S \ {first})

Ids(ms) == {ms[i].id : i \in 1..Len(ms)}

\* A listener without the id test of setupRoomListener: every 'added' change
\* is appended.
RoomAddedNoDedup(room, m, foreground, isMuted, blocked) ==
    [messages |-> Append(room.messages, m),
     unreadCount |-> IF ~foreground /\ m.sender # Self /\ ~isMuted /\ m.sender \notin blocked
                     THEN room.unreadCount + 1 ELSE room.unreadCount]

\* A listener whose shouldNotify does not look at the room's mute flag.
RoomAddedIgnoresMute(room, m, foreground, isMuted, blocked) ==
    IF m.id \in Ids(room.messages) THEN room
    ELSE [messages |-> Append(room.messages, m),
          unreadCount |-> IF ~foreground /\ m.sender # Self /\ m.sender \notin blocked
                          THEN room.unreadCount + 1 ELSE room.unreadCount]

\* setupRoomListener, one 'added' change: dropped when the id is present, else
\* appended; unreadCount grows when shouldNotify.
RoomAdded(room, m, foreground, isMuted, blocked) ==
    IF m.id \in Ids(room.messages) THEN room
    ELSE [messages |-> Append(room.messages, m),
          unreadCount |-> IF ~foreground /\ m.sender # Self /\ ~isMuted /\ m.sender \notin blocked
                          THEN room.unreadCount + 1 ELSE room.unreadCount]

\* setupRoomListener, one 'added' change: whether new Notification(...) is
\* reached. Notification.permission is 'granted' on Self's page.
MentionAlert(room, m, blocked, usr) ==
    /\ m.id \notin Ids(room.messages)
    /\ m.sender # Self
    /\ m.sender \notin blocked
    /\ Includes(m.text, <<"@">> \o Name(usr))

\* one-on-one session listener, one 'added' change: any entry with the id is
\* filtered out and the message is appended; unreadCount is not touched.
SessionAdded(room, m) ==
    [messages |-> Append(SelectSeq(room.messages, LAMBDA x : x.id # m.id), m),
     unreadCount |-> room.unreadCount]

\* snapshot.docChanges().forEach over the added documents
RECURSIVE ApplyAdded(_, _, _)
ApplyAdded(room, added, r) ==
    IF added = <<>> THEN room
    ELSE ApplyAdded(
            IF r = "ONE_ON_ONE" THEN SessionAdded(room, Head(added))
            ELSE RoomAdded(room, Head(added), activeRoomRef = r, muted[r], blockedUsers),
            Tail(added), r)

\* ------------------------------------------------------------------ Init
InitMatch ==
    /\ queue = [u \in Users |-> 0]
    /\ users = [u \in Users |-> NoPointer]
    /\ nextSession = 0
    /\ oneOnOne = [u \in Users |-> IdleRoom]
    /\ calls = [u \in Users |-> EmptyBag]
    /\ clock = [u \in Users |-> 0]
    /\ leftSession = [u \in Users |-> NoSession]

InitRooms ==
    /\ messages = {}
    /\ roomMessages = [r \in RoomTypes |-> <<>>]
    /\ unreadCount = [r \in RoomTypes |-> 0]
    /\ muted = [r \in RoomTypes |-> FALSE]
    /\ activeRoom = "WORLD"
    /\ activeRoomRef = "WORLD"
    /\ blockedUsers = {}
    /\ snapshot = [r \in RoomTypes |-> {}]

Absent == -1
Stopped == -2
HeartbeatMs == 5000
ActiveWindowMs == 15000

InitPresence ==
    /\ now = 0
    /\ online = [u \in Users |-> Absent]
    /\ beat = [u \in Users |-> Absent]
    /\ queryFloor = 0
    /\ onlineUsersMap = <<>>

\* Self's page in store mode: the auth listener has reported the anonymous
\* user, the profile was entered on the login screen, nothing is in flight.
NoTimers == [match |-> Absent, world |-> Absent, echo |-> <<>>]

InitApp ==
    /\ isDemoMode = FALSE
    /\ firebaseUid = Self
    /\ user = Self
    /\ authState = "signedIn"
    /\ logout = "idle"
    /\ timers = NoTimers
    /\ alerts = {}
    /\ translating = {}

Init == InitMatch /\ InitRooms /\ InitPresence /\ InitApp

\* ------------------------------------------------------------------ demo simulation effect
MatchDelayMs == 1500
WorldPeriodMs == 8000
EchoDelayMs == 800

\* The dependency array of the effect: [isDemoMode, user, activeRoom,
\* rooms[ONE_ON_ONE].isSearching].
DemoDeps(demo, usr, room, rm) == <<demo, usr, room, rm.isSearching>>

\* One run of the effect body: the match timeout while the one-on-one room is
\* in the foreground and searching without a partner, else the world interval.
DemoEffectRun(demo, usr, room, rm, t) ==
    IF ~demo \/ usr = NoUser THEN [match |-> Absent, world |-> Absent]
    ELSE IF room = "ONE_ON_ONE" /\ rm.isSearching /\ rm.connectedPartner = NoUser
         THEN [match |-> t + MatchDelayMs, world |-> Absent]
         ELSE [match |-> Absent, world |-> t + WorldPeriodMs]

\* After a render: when a dependency changed, the cleanup clears the timer of
\* the previous run and the body runs again; the echo timeouts of
\* handleSendMessage are not owned by the effect. To be conjoined after the
\* conjuncts that determine the primed dependencies.
DemoEffect(echo) ==
    timers' =
        IF DemoDeps(isDemoMode', user', activeRoom', oneOnOne'[Self])
              = DemoDeps(isDemoMode, user, activeRoom, oneOnOne[Self])
        THEN [timers EXCEPT !.echo = echo]
        ELSE LET run == DemoEffectRun(isDemoMode', user', activeRoom', oneOnOne'[Self], now)
             IN [match |-> run.match, world |-> run.world, echo |-> echo]

\* A demo timer has reached its time and has not fired yet.
Due(t) == t # Absent /\ t <= now
TimerDue ==
    \/ Due(timers.match)
    \/ Due(timers.world)
    \/ \E i \in 1..Len(timers.echo) : Due(timers.echo[i].due)

\* What a handler that only touches the rooms and the foreground room leaves
\* alone, and the re-run of the demo effect that its render causes.
RoomsOnly ==
    /\ UNCHANGED <<isDemoMode, firebaseUid, user, authState, logout, alerts, translating>>
    /\ DemoEffect(timers.echo)

\* ------------------------------------------------------------------ startSearch
\* What a change of Self's one-on-one room does to Self's feed: startSearch and
\* handleSkip clear the messages; a new sessionId replaces the session listener.
SelfFeed(u, clear, sid) ==
    /\ roomMessages' = IF u = Self /\ clear
                       THEN [roomMessages EXCEPT !["ONE_ON_ONE"] = <<>>]
                       ELSE roomMessages
    /\ snapshot' = IF u = Self /\ sid # oneOnOne[u].sessionId
                   THEN [snapshot EXCEPT !["ONE_ON_ONE"] = {}]
                   ELSE snapshot

\* The synchronous head of startSearch: isSearching := true, messages := [],
\* then setDoc is issued, unless the client is in demo mode or has no uid.
StartSearchBegin(u, rm) ==
    /\ oneOnOne' = [oneOnOne EXCEPT ![u] = [rm EXCEPT !.isSearching = TRUE]]
    /\ calls' = IF u = Self /\ (isDemoMode \/ firebaseUid = NoUser)
                THEN calls
                ELSE [calls EXCEPT ![u] = AddCall(@, Call("setDoc", NoUser, NoSession, 0))]
    /\ SelfFeed(u, TRUE, rm.sessionId)

\* useEffect(() => { activeRoomRef.current = activeRoom; ... }, [activeRoom, user]):
\* the ref takes the value of the state some time after the render that
\* changed it; until then the listeners read the room selected before.
RefsSync ==
    /\ activeRoomRef # activeRoom
    /\ activeRoomRef' = activeRoom
    /\ UNCHANGED <<messages, roomMessages, unreadCount, muted, activeRoom, blockedUsers, snapshot>>
    /\ UNCHANGED <<matchVars, presenceVars, appVars>>

\* handleSelectRoom: the room becomes the foreground room with unreadCount 0;
\* selecting the one-on-one room without a session or a search starts a search.
\* flushed: the effects of the render run at the end of the click, before any
\* listener callback; otherwise the ref keeps the room selected until now.
HandleSelectRoom(u, r, flushed) ==
    /\ u = Self => user # NoUser
    /\ activeRoom' = IF u = Self THEN r ELSE activeRoom
    /\ activeRoomRef' = IF u # Self THEN activeRoomRef
                        ELSE IF flushed THEN r ELSE activeRoom
    /\ unreadCount' = IF u = Self THEN [unreadCount EXCEPT ![r] = 0] ELSE unreadCount
    /\ IF r = "ONE_ON_ONE" /\ oneOnOne[u].sessionId = NoSession /\ ~oneOnOne[u].isSearching
       THEN StartSearchBegin(u, oneOnOne[u])
       ELSE UNCHANGED <<oneOnOne, calls, roomMessages, snapshot>>
    /\ UNCHANGED <<queue, users, nextSession, clock, leftSession>>
    /\ UNCHANGED <<messages, muted, blockedUsers, presenceVars>>
    /\ RoomsOnly

\* handleSelectRoom(ONE_ON_ONE) of a client that neither has a session nor searches.
SelectOneOnOne(u) ==
    /\ oneOnOne[u].sessionId = NoSession
    /\ ~oneOnOne[u].isSearching
    /\ HandleSelectRoom(u, "ONE_ON_ONE", TRUE)

\* await setDoc(myUserDocRef, ...) is acknowledged.
SetDocDone(u, c) ==
    /\ c.stage = "setDoc"
    /\ users' = [users EXCEPT ![u] = SearchingPointer]
    /\ calls' = [calls EXCEPT ![u] = AddCall(DropCall(@, c), Call("read", NoUser, NoSession, 0))]
    /\ UNCHANGED <<queue, nextSession, oneOnOne, clock, leftSession>>
    /\ UNCHANGED <<feedVars, presenceVars>>
    /\ UNCHANGED appVars

\* The transaction callback: getDocs (a plain read, outside the transaction's
\* read set), then the buffered writes and, on a match, setRooms at once.
TxCallback(u, c) ==
    /\ c.stage = "read"
    /\ LET p == Candidate(queue, u) IN
       IF p # NoUser
       THEN /\ nextSession < MaxSessions
            /\ nextSession' = nextSession + 1
            /\ calls' = [calls EXCEPT ![u] =
                   AddCall(DropCall(@, c), Call("commit", p, nextSession + 1, queue[p]))]
            /\ oneOnOne' = [oneOnOne EXCEPT ![u] =
                   [isSearching |-> FALSE, sessionId |-> nextSession + 1, connectedPartner |-> p]]
            /\ SelfFeed(u, FALSE, nextSession + 1)
       ELSE /\ calls' = [calls EXCEPT ![u] =
                   AddCall(DropCall(@, c), Call("commit", NoUser, NoSession, 0))]
            /\ UNCHANGED <<nextSession, oneOnOne, roomMessages, snapshot>>
    /\ UNCHANGED <<queue, users, clock, leftSession>>
    /\ UNCHANGED <<messages, unreadCount, muted, activeRoom, activeRoomRef, blockedUsers, presenceVars>>
    /\ UNCHANGED appVars

\* The buffered writes are applied atomically. transaction.update needs the
\* document to exist; delete and set do not. The queue document carries the
\* caller's Date.now(): later than its earlier readings, in no relation to the
\* clocks of other clients.
TxCommit(u, c) ==
    /\ c.stage = "commit"
    /\ IF c.partner # NoUser
       THEN /\ users[c.partner].status # "none"
            /\ users[u].status # "none"
            /\ queue' = [queue EXCEPT ![c.partner] = 0]
            /\ users' = [users EXCEPT ![c.partner] = MatchedPointer(c.sid, u),
                                      ![u] = MatchedPointer(c.sid, c.partner)]
            /\ UNCHANGED clock
       ELSE /\ \E t \in (clock[u] + 1)..MaxStamp :
                 /\ queue' = [queue EXCEPT ![u] = t]
                 /\ clock' = [clock EXCEPT ![u] = t]
            /\ UNCHANGED users
    /\ calls' = [calls EXCEPT ![u] = DropCall(@, c)]
    /\ UNCHANGED <<nextSession, oneOnOne, leftSession>>
    /\ UNCHANGED <<feedVars, presenceVars>>
    /\ UNCHANGED appVars

\* runTransaction rejects: catch (e) logs and startSearch returns.
TxFail(u, c) ==
    /\ c.stage = "commit"
    /\ calls' = [calls EXCEPT ![u] = DropCall(@, c)]
    /\ UNCHANGED <<queue, users, nextSession, oneOnOne, clock, leftSession>>
    /\ UNCHANGED <<feedVars, presenceVars>>
    /\ UNCHANGED appVars

\* ------------------------------------------------------------------ passive match listener
\* An updater that takes the session id of the pointer and drops the partner.
PointerResultNoPartner(rm, data) ==
    [rm EXCEPT !.isSearching = FALSE, !.sessionId = data.sessionId,
               !.connectedPartner = NoUser]

\* The setRooms updater of the listener: the room with isSearching false and
\* the pointer's sessionId and partnerProfile, everything else as it was.
PointerResult(rm, data) ==
    [rm EXCEPT !.isSearching = FALSE, !.sessionId = data.sessionId,
               !.connectedPartner = data.partner]

\* A passive listener that takes the session id but not partnerProfile.
PassiveMatchNoPartner(u) ==
    /\ oneOnOne[u].isSearching
    /\ ~PendingSetDoc(u)
    /\ users[u].status = "matched"
    /\ users[u].sessionId # NoSession
    /\ oneOnOne' = [oneOnOne EXCEPT ![u] =
           [isSearching |-> FALSE, sessionId |-> users[u].sessionId,
            connectedPartner |-> NoUser]]
    /\ SelfFeed(u, FALSE, users[u].sessionId)
    /\ UNCHANGED <<queue, users, nextSession, calls, clock, leftSession>>
    /\ UNCHANGED <<messages, unreadCount, muted, activeRoom, activeRoomRef, blockedUsers, presenceVars>>
    /\ UNCHANGED appVars

\* A passive listener that stays subscribed when the room is not searching.
PassiveMatchAlways(u) ==
    /\ ~PendingSetDoc(u)
    /\ users[u].status = "matched"
    /\ users[u].sessionId # NoSession
    /\ oneOnOne' = [oneOnOne EXCEPT ![u] =
           [isSearching |-> FALSE, sessionId |-> users[u].sessionId,
            connectedPartner |-> users[u].partner]]
    /\ SelfFeed(u, FALSE, users[u].sessionId)
    /\ UNCHANGED <<queue, users, nextSession, calls, clock, leftSession>>
    /\ UNCHANGED <<messages, unreadCount, muted, activeRoom, activeRoomRef, blockedUsers, presenceVars>>
    /\ UNCHANGED appVars

\* onSnapshot(doc(db, 'users', uid)) is subscribed while isSearching: a pointer
\* with status 'matched' and a sessionId makes the room active.
PassiveMatch(u) ==
    /\ oneOnOne[u].isSearching
    /\ ~PendingSetDoc(u)
    /\ users[u].status = "matched"
    /\ users[u].sessionId # NoSession
    /\ oneOnOne' = [oneOnOne EXCEPT ![u] = PointerResult(@, users[u])]
    /\ SelfFeed(u, FALSE, users[u].sessionId)
    /\ UNCHANGED <<queue, users, nextSession, calls, clock, leftSession>>
    /\ UNCHANGED <<messages, unreadCount, muted, activeRoom, activeRoomRef, blockedUsers, presenceVars>>
    /\ UNCHANGED appVars

\* A skip that clears the partner and the messages but keeps the sessionId.
HandleSkipKeepsSession(u) ==
    /\ u = Self => user # NoUser
    /\ oneOnOne[u].connectedPartner # NoUser
    /\ StartSearchBegin(u, [oneOnOne[u] EXCEPT !.connectedPartner = NoUser])
    /\ leftSession' = [leftSession EXCEPT ![u] = oneOnOne[u].sessionId]
    /\ UNCHANGED <<queue, users, nextSession, clock>>
    /\ UNCHANGED <<messages, unreadCount, muted, activeRoom, activeRoomRef, blockedUsers, presenceVars>>
    /\ RoomsOnly

\* ------------------------------------------------------------------ handleSkip
\* The Skip button is rendered while connectedPartner is set.
HandleSkip(u) ==
    /\ u = Self => user # NoUser
    /\ oneOnOne[u].connectedPartner # NoUser
    /\ StartSearchBegin(u, [oneOnOne[u] EXCEPT !.connectedPartner = NoUser,
                                               !.sessionId = NoSession])
    /\ leftSession' = [leftSession EXCEPT ![u] = oneOnOne[u].sessionId]
    /\ UNCHANGED <<queue, users, nextSession, clock>>
    /\ UNCHANGED <<messages, unreadCount, muted, activeRoom, activeRoomRef, blockedUsers, presenceVars>>
    /\ RoomsOnly

DoSetDoc(u) == \E c \in InFlight(u) : SetDocDone(u, c)
DoTxCallback(u) == \E c \in InFlight(u) : TxCallback(u, c)
DoTxCommit(u) == \E c \in InFlight(u) : TxCommit(u, c)
DoTxFail(u) == \E c \in InFlight(u) : TxFail(u, c)

NextMatch ==
    \/ \E u \in Users : SelectOneOnOne(u)
    \/ \E u \in Users : HandleSkip(u)
    \/ \E u \in Users : PassiveMatch(u)
    \/ \E u \in Users : DoSetDoc(u)
    \/ \E u \in Users : DoTxCallback(u)
    \/ \E u \in Users : DoTxCommit(u)
    \/ \E u \in Users : DoTxFail(u)

SpecMatch == Init /\ [][NextMatch]_vars

\* Scenario A: the same client code with two users online. A subscribed
\* snapshot listener is eventually called with the document's current state.
ScenarioUsers == {"alice", "bob"}

NextScenarioA ==
    \/ \E u \in ScenarioUsers : SelectOneOnOne(u)
    \/ \E u \in ScenarioUsers : HandleSkip(u)
    \/ \E u \in ScenarioUsers : PassiveMatch(u)
    \/ \E u \in ScenarioUsers : DoSetDoc(u)
    \/ \E u \in ScenarioUsers : DoTxCallback(u)
    \/ \E u \in ScenarioUsers : DoTxCommit(u)
    \/ \E u \in ScenarioUsers : DoTxFail(u)

SpecScenarioA ==
    Init /\ [][NextScenarioA]_vars /\ \A u \in ScenarioUsers : WF_vars(PassiveMatch(u))

\* Skip in a running session: bob has matched the waiting alice (session 1,
\* committed, both rooms active) and carol waits in the queue. No room is idle,
\* so every further startSearch is the one handleSkip invokes.
InitSkip ==
    /\ queue = [u \in Users |-> IF u = "carol" THEN 1 ELSE 0]
    /\ users = [u \in Users |->
          CASE u = "alice" -> MatchedPointer(1, "bob")
            [] u = "bob" -> MatchedPointer(1, "alice")
            [] OTHER -> SearchingPointer]
    /\ nextSession = 1
    /\ oneOnOne = [u \in Users |->
          CASE u = "alice" -> [isSearching |-> FALSE, sessionId |-> 1, connectedPartner |-> "bob"]
            [] u = "bob" -> [isSearching |-> FALSE, sessionId |-> 1, connectedPartner |-> "alice"]
            [] OTHER -> [isSearching |-> TRUE, sessionId |-> NoSession, connectedPartner |-> NoUser]]
    /\ calls = [u \in Users |-> EmptyBag]
    /\ clock = [u \in Users |-> IF u = "bob" THEN 0 ELSE 1]
    /\ leftSession = [u \in Users |-> NoSession]
    /\ InitRooms
    /\ InitPresence
    /\ InitApp

NextSkip ==
    \/ \E u \in Users : HandleSkip(u)
    \/ \E u \in Users : PassiveMatch(u)
    \/ \E u \in Users : DoSetDoc(u)
    \/ \E u \in Users : DoTxCallback(u)
    \/ \E u \in Users : DoTxCommit(u)
    \/ \E u \in Users : DoTxFail(u)

SpecSkip == InitSkip /\ [][NextSkip]_vars

\* ------------------------------------------------------------------ room feeds
\* handleSendMessage in store mode: addDoc with the sender's Date.now(). The
\* foreground room of a client other than Self is an input.
HandleSendMessageEcho(u, r, text) ==
    /\ u = Self => (r = activeRoom /\ user # NoUser /\ ~isDemoMode /\ firebaseUid # NoUser)
    /\ r = "ONE_ON_ONE" => oneOnOne[u].sessionId # NoSession
    /\ Cardinality(messages) < MaxMsgs
    /\ \E t \in 1..MaxTs :
          LET msg == Message(Cardinality(messages) + 1, u, t, RoomIdOf(u, r), text)
          IN /\ \A m \in messages : m.sender = u => m.timestamp <= t
             /\ messages' = messages \cup {msg}
             /\ roomMessages' = IF u = Self
                                THEN [roomMessages EXCEPT ![r] = Append(@, msg)]
                                ELSE roomMessages
    /\ UNCHANGED <<unreadCount, muted, activeRoom, activeRoomRef, blockedUsers, snapshot>>
    /\ UNCHANGED <<matchVars, presenceVars>>
    /\ UNCHANGED appVars

HandleSendMessage(u, r, text) ==
    /\ u = Self => (r = activeRoom /\ user # NoUser /\ ~isDemoMode /\ firebaseUid # NoUser)
    /\ r = "ONE_ON_ONE" => oneOnOne[u].sessionId # NoSession
    /\ Cardinality(messages) < MaxMsgs
    /\ \E t \in 1..MaxTs :
          /\ \A m \in messages : m.sender = u => m.timestamp <= t
          /\ messages' = messages \cup
                {Message(Cardinality(messages) + 1, u, t, RoomIdOf(u, r), text)}
    /\ UNCHANGED <<roomMessages, unreadCount, muted, activeRoom, activeRoomRef, blockedUsers, snapshot>>
    /\ UNCHANGED <<matchVars, presenceVars>>
    /\ UNCHANGED appVars

\* The documents the listener of Self's room r would report as 'added' now.
Subscribed(r) ==
    /\ ~isDemoMode /\ firebaseUid # NoUser
    /\ IF r = "ONE_ON_ONE" THEN oneOnOne[Self].sessionId # NoSession ELSE user # NoUser
Added(r) == QueryResult(messages, RoomIdOf(Self, r)) \ snapshot[r]

\* onSnapshot callback of setupRoomListener (r broadcast) or of the session
\* listener (r one-on-one): every added document is applied in query order.
\* The render that follows runs the effects that were still pending.
FeedSnapshot(r) ==
    /\ Subscribed(r)
    /\ Added(r) # {}
    /\ LET after == ApplyAdded([messages |-> roomMessages[r], unreadCount |-> unreadCount[r]],
                               InQueryOrder(Added(r)), r)
       IN /\ roomMessages' = [roomMessages EXCEPT ![r] = after.messages]
          /\ unreadCount' = [unreadCount EXCEPT ![r] = after.unreadCount]
    /\ snapshot' = [snapshot EXCEPT ![r] = QueryResult(messages, RoomIdOf(Self, r))]
    /\ alerts' = IF r = "ONE_ON_ONE" THEN alerts
                 ELSE alerts \cup {m.id : m \in {x \in Added(r) :
                         MentionAlert([messages |-> roomMessages[r]], x, blockedUsers, user)}}
    /\ activeRoomRef' = activeRoom
    /\ UNCHANGED <<messages, muted, activeRoom, blockedUsers>>
    /\ UNCHANGED <<matchVars, presenceVars>>
    /\ UNCHANGED <<isDemoMode, firebaseUid, user, authState, logout, timers, translating>>

HandleToggleMute(r) ==
    /\ muted' = [muted EXCEPT ![r] = ~muted[r]]
    /\ activeRoomRef' = activeRoom
    /\ UNCHANGED <<messages, roomMessages, unreadCount, activeRoom, blockedUsers, snapshot>>
    /\ UNCHANGED <<matchVars, presenceVars>>
    /\ UNCHANGED appVars

\* handleBlockUser from the context menu of another user's visible message.
\* blockedUsers is a dependency of the listener effect: the three broadcast
\* listeners are replaced and deliver their initial batch again.
HandleBlockUser(name) ==
    /\ name # Self
    /\ name \notin blockedUsers
    /\ \E i \in 1..Len(roomMessages[activeRoom]) : roomMessages[activeRoom][i].sender = name
    /\ blockedUsers' = blockedUsers \cup {name}
    /\ snapshot' = [r \in RoomTypes |-> IF r \in BroadcastRooms THEN {} ELSE snapshot[r]]
    /\ activeRoomRef' = activeRoom
    /\ UNCHANGED <<messages, roomMessages, unreadCount, muted, activeRoom>>
    /\ UNCHANGED <<matchVars, presenceVars>>
    /\ UNCHANGED appVars

\* Self chats with bob in session 1 (reached by alice waiting and bob matching
\* her) and has gone back to the world room.
InitFeed ==
    /\ queue = [u \in Users |-> 0]
    /\ users = [u \in Users |->
          CASE u = "alice" -> MatchedPointer(1, "bob")
            [] u = "bob" -> MatchedPointer(1, "alice")
            [] OTHER -> NoPointer]
    /\ nextSession = 1
    /\ oneOnOne = [u \in Users |->
          CASE u = "alice" -> [isSearching |-> FALSE, sessionId |-> 1, connectedPartner |-> "bob"]
            [] u = "bob" -> [isSearching |-> FALSE, sessionId |-> 1, connectedPartner |-> "alice"]
            [] OTHER -> IdleRoom]
    /\ calls = [u \in Users |-> EmptyBag]
    /\ clock = [u \in Users |-> IF u = "alice" THEN 1 ELSE 0]
    /\ leftSession = [u \in Users |-> NoSession]
    /\ InitRooms
    /\ InitPresence
    /\ InitApp

NextFeed ==
    \/ \E u \in Users, r \in RoomTypes : HandleSendMessage(u, r, PlainText)
    \/ \E r \in RoomTypes : FeedSnapshot(r)
    \/ \E r \in RoomTypes : HandleSelectRoom(Self, r, TRUE)
    \/ \E r \in RoomTypes : HandleToggleMute(r)
    \/ \E name \in Users : HandleBlockUser(name)

SpecFeed == InitFeed /\ [][NextFeed]_vars

\* What handleDeleteMessage and handleDeleteForYou both do: the entry with the
\* id leaves rooms[activeRoom].messages; no document is touched.
RemoveLocally(id) ==
    /\ roomMessages' = [roomMessages EXCEPT ![activeRoom] =
          SelectSeq(@, LAMBDA m : m.id # id)]
    /\ activeRoomRef' = activeRoom
    /\ UNCHANGED <<messages, unreadCount, muted, activeRoom, blockedUsers, snapshot>>
    /\ UNCHANGED <<matchVars, presenceVars>>
    /\ UNCHANGED appVars

\* handleDeleteMessage, 'Unsend' in the context menu of an own message of a
\* broadcast room.
HandleDeleteMessage(id) ==
    /\ activeRoom # "ONE_ON_ONE"
    /\ \E i \in 1..Len(roomMessages[activeRoom]) :
          roomMessages[activeRoom][i].id = id /\ roomMessages[activeRoom][i].sender = Self
    /\ RemoveLocally(id)

\* handleDeleteForYou, 'Delete For You' in the context menu of any visible
\* message.
HandleDeleteForYou(id) ==
    /\ \E i \in 1..Len(roomMessages[activeRoom]) :
          /\ roomMessages[activeRoom][i].id = id
          /\ roomMessages[activeRoom][i].sender \notin blockedUsers
    /\ RemoveLocally(id)

\* The broadcast feeds with the context menu: delete, unsend, block.
NextBlock ==
    \/ \E u \in Users, r \in BroadcastRooms : HandleSendMessage(u, r, PlainText)
    \/ \E r \in BroadcastRooms : FeedSnapshot(r)
    \/ \E r \in BroadcastRooms : HandleSelectRoom(Self, r, TRUE)
    \/ \E id \in 1..MaxMsgs : HandleDeleteMessage(id)
    \/ \E id \in 1..MaxMsgs : HandleDeleteForYou(id)
    \/ \E name \in Users : HandleBlockUser(name)

SpecBlock == InitFeed /\ [][NextBlock]_vars

\* The feeds with the effect of lines 88-92 as a step of its own: a listener
\* callback may run between a selection and the synchronisation of the ref.
NextRefs ==
    \/ \E u \in ScenarioUsers, r \in BroadcastRooms : HandleSendMessage(u, r, PlainText)
    \/ \E r \in BroadcastRooms : FeedSnapshot(r)
    \/ \E r \in RoomTypes, flushed \in BOOLEAN : HandleSelectRoom(Self, r, flushed)
    \/ RefsSync
    \/ \E r \in BroadcastRooms : HandleToggleMute(r)

SpecRefs == InitFeed /\ [][NextRefs]_vars

\* ------------------------------------------------------------------ rendering
\* ChatWindow: visibleMessages of the foreground room (no search query).
VisibleMessages(r) == SelectSeq(roomMessages[r], LAMBDA m : m.sender \notin blockedUsers)

\* ChatList row of room r: the messages its preview line shows. The one-on-one
\* row shows a status text while searching or without a partner; any other
\* row shows `${lastMsg.sender}: ${lastMsg.text}` of the last list entry.
PreviewMessages(r) ==
    IF r = "ONE_ON_ONE" /\ (oneOnOne[Self].isSearching \/ oneOnOne[Self].connectedPartner = NoUser)
    THEN {}
    ELSE IF roomMessages[r] = <<>> THEN {}
    ELSE {roomMessages[r][Len(roomMessages[r])]}

\* ------------------------------------------------------------------ translation
\* How ai.models.generateContent settles: it rejects, or it resolves with a
\* response whose text is a translation, the empty string or undefined.
TranslatedText == <<"o", "i">>
NoResponse == [kind |-> "none", text |-> Undefined]
Responses ==
    {[kind |-> "error", text |-> Undefined],
     [kind |-> "ok", text |-> Undefined],
     [kind |-> "ok", text |-> <<>>],
     [kind |-> "ok", text |-> TranslatedText]}

\* translateMessage without its try/catch and without `|| text`.
TranslateMessageNoFallback(text, response) ==
    IF response.kind = "error" THEN [raised |-> TRUE, value |-> Undefined]
    ELSE [raised |-> FALSE, value |-> response.text]

\* translateMessage: how the returned promise settles. `response.text || text`
\* takes text when response.text is undefined or empty; the catch returns text.
TranslateMessage(text, response) ==
    IF response.kind = "error" THEN [raised |-> FALSE, value |-> text]
    ELSE IF response.text = Undefined \/ response.text = <<>>
         THEN [raised |-> FALSE, value |-> text]
         ELSE [raised |-> FALSE, value |-> response.text]

\* handleTranslateMessage up to its await: the Translate button of a rendered
\* message of the foreground room; activeRoom is captured by the closure.
HandleTranslateMessage(id) ==
    /\ user # NoUser
    /\ Cardinality(translating) < MaxTranslations
    /\ \E i \in 1..Len(VisibleMessages(activeRoom)) :
          LET m == VisibleMessages(activeRoom)[i]
          IN /\ m.id = id
             /\ translating' = translating \cup
                   {[room |-> activeRoom, id |-> id, text |-> m.text, stage |-> "called",
                     response |-> NoResponse, translated |-> Undefined]}
    /\ UNCHANGED <<isDemoMode, firebaseUid, user, authState, logout, timers, alerts>>
    /\ UNCHANGED <<matchVars, feedVars, presenceVars>>

\* generateContent settles and translateMessage returns or throws.
TranslateSettles(c, response) ==
    /\ c.stage = "called"
    /\ LET result == TranslateMessage(c.text, response)
       IN translating' = (translating \ {c}) \cup
             {[c EXCEPT !.stage = IF result.raised THEN "threw" ELSE "returned",
                        !.response = response,
                        !.translated = result.value]}
    /\ UNCHANGED <<isDemoMode, firebaseUid, user, authState, logout, timers, alerts>>
    /\ UNCHANGED <<matchVars, feedVars, presenceVars>>

\* A continuation that puts the translated text in place of the text.
TranslateStoreIntoText(c) ==
    /\ c.stage = "returned"
    /\ roomMessages' = [roomMessages EXCEPT ![c.room] =
          [i \in 1..Len(@) |-> IF @[i].id = c.id THEN [@[i] EXCEPT !.text = c.translated]
                                ELSE @[i]]]
    /\ translating' = translating \ {c}
    /\ UNCHANGED <<messages, unreadCount, muted, activeRoom, activeRoomRef, blockedUsers, snapshot>>
    /\ UNCHANGED <<isDemoMode, firebaseUid, user, authState, logout, timers, alerts>>
    /\ UNCHANGED <<matchVars, presenceVars>>

\* The continuation of handleTranslateMessage: setRooms maps the messages of
\* the captured room. After a throw the continuation does not run.
TranslateStore(c) ==
    /\ c.stage = "returned"
    /\ roomMessages' = [roomMessages EXCEPT ![c.room] =
          [i \in 1..Len(@) |-> IF @[i].id = c.id THEN [@[i] EXCEPT !.translation = c.translated]
                                ELSE @[i]]]
    /\ translating' = translating \ {c}
    /\ UNCHANGED <<messages, unreadCount, muted, activeRoom, activeRoomRef, blockedUsers, snapshot>>
    /\ UNCHANGED <<isDemoMode, firebaseUid, user, authState, logout, timers, alerts>>
    /\ UNCHANGED <<matchVars, presenceVars>>

DoTranslateSettles == \E c \in translating, response \in Responses : TranslateSettles(c, response)
DoTranslateStore == \E c \in translating : TranslateStore(c)

NextTranslate ==
    \/ \E u \in ScenarioUsers, r \in RoomTypes : HandleSendMessage(u, r, PlainText)
    \/ \E r \in RoomTypes : FeedSnapshot(r)
    \/ \E r \in RoomTypes : HandleSelectRoom(Self, r, TRUE)
    \/ \E id \in 1..MaxMsgs : HandleTranslateMessage(id)
    \/ DoTranslateSettles
    \/ DoTranslateStore

SpecTranslate == InitFeed /\ [][NextTranslate]_vars

\* Messages with and without a mention of Self, sent by Self and her partner.
Texts == {PlainText, MentionText(Self)}

NextMention ==
    \/ \E u \in ScenarioUsers, r \in RoomTypes, text \in Texts : HandleSendMessage(u, r, text)
    \/ \E r \in RoomTypes : FeedSnapshot(r)
    \/ \E r \in RoomTypes : HandleSelectRoom(Self, r, TRUE)
    \/ \E r \in RoomTypes : HandleToggleMute(r)
    \/ \E name \in Users : HandleBlockUser(name)

SpecMention == InitFeed /\ [][NextMention]_vars

\* Re-subscription of both kinds of listener. Self has selected the one-on-one
\* room and her transaction callback has just matched the waiting bob: her
\* room shows session 1 while the commit is pending. Skip, the commit and the
\* passive listener can take her out of the session and back into it, which
\* replaces the session listener; handleBlockUser replaces the broadcast
\* listeners. The foreground room and the mute flags stay as they are.
InitRedelivery ==
    /\ queue = [u \in Users |-> IF u = "bob" THEN 1 ELSE 0]
    /\ users = [u \in Users |-> IF u = "carol" THEN NoPointer ELSE SearchingPointer]
    /\ nextSession = 1
    /\ oneOnOne = [u \in Users |->
          CASE u = "alice" -> [isSearching |-> FALSE, sessionId |-> 1, connectedPartner |-> "bob"]
            [] u = "bob" -> [isSearching |-> TRUE, sessionId |-> NoSession, connectedPartner |-> NoUser]
            [] OTHER -> IdleRoom]
    /\ calls = [u \in Users |->
          IF u = "alice" THEN SetToBag({Call("commit", "bob", 1, 1)}) ELSE EmptyBag]
    /\ clock = [u \in Users |-> IF u = "bob" THEN 1 ELSE 0]
    /\ leftSession = [u \in Users |-> NoSession]
    /\ messages = {}
    /\ roomMessages = [r \in RoomTypes |-> <<>>]
    /\ unreadCount = [r \in RoomTypes |-> 0]
    /\ muted = [r \in RoomTypes |-> FALSE]
    /\ activeRoom = "ONE_ON_ONE"
    /\ activeRoomRef = "ONE_ON_ONE"
    /\ blockedUsers = {}
    /\ snapshot = [r \in RoomTypes |-> {}]
    /\ InitPresence
    /\ InitApp

NextRedelivery ==
    \/ \E u \in Users, r \in RoomTypes : HandleSendMessage(u, r, PlainText)
    \/ \E r \in RoomTypes : FeedSnapshot(r)
    \/ \E name \in Users : HandleBlockUser(name)
    \/ HandleSkip(Self)
    \/ DoSetDoc(Self)
    \/ DoTxCallback(Self)
    \/ DoTxCommit(Self)
    \/ DoTxFail(Self)
    \/ \E u \in ScenarioUsers : PassiveMatch(u)

SpecRedelivery == InitRedelivery /\ [][NextRedelivery]_vars

\* A room with a history longer than the query limit. Self chats with bob in
\* session 1 as in InitFeed; one of her rooms already holds MaxStored messages
\* of alice and bob, each sender's timestamps in sending order, and no listener
\* has delivered anything yet.
InitCap ==
    /\ queue = [u \in Users |-> 0]
    /\ users = [u \in Users |->
          CASE u = "alice" -> MatchedPointer(1, "bob")
            [] u = "bob" -> MatchedPointer(1, "alice")
            [] OTHER -> NoPointer]
    /\ nextSession = 1
    /\ oneOnOne = [u \in Users |->
          CASE u = "alice" -> [isSearching |-> FALSE, sessionId |-> 1, connectedPartner |-> "bob"]
            [] u = "bob" -> [isSearching |-> FALSE, sessionId |-> 1, connectedPartner |-> "alice"]
            [] OTHER -> IdleRoom]
    /\ calls = [u \in Users |-> EmptyBag]
    /\ clock = [u \in Users |-> IF u = "alice" THEN 1 ELSE 0]
    /\ leftSession = [u \in Users |-> NoSession]
    /\ \E r \in RoomTypes :
       \E sender \in [1..MaxStored -> ScenarioUsers] :
       \E stamp \in [1..MaxStored -> 1..MaxStored] :
          /\ \A i, j \in 1..MaxStored :
                (i < j /\ sender[i] = sender[j]) => stamp[i] <= stamp[j]
          /\ messages = {Message(i, sender[i], stamp[i], RoomIdOf(Self, r), PlainText) :
                             i \in 1..MaxStored}
    /\ roomMessages = [r \in RoomTypes |-> <<>>]
    /\ unreadCount = [r \in RoomTypes |-> 0]
    /\ muted = [r \in RoomTypes |-> FALSE]
    /\ activeRoom = "WORLD"
    /\ activeRoomRef = "WORLD"
    /\ blockedUsers = {}
    /\ snapshot = [r \in RoomTypes |-> {}]
    /\ InitPresence
    /\ InitApp

NextCap ==
    \/ \E r \in RoomTypes : FeedSnapshot(r)
    \/ \E r \in RoomTypes : HandleSelectRoom(Self, r, TRUE)
    \/ \E name \in Users : HandleBlockUser(name)

SpecCap == InitCap /\ [][NextCap]_vars

\* ------------------------------------------------------------------ presence
\* The presence effect runs: setDoc of the client's own record, setInterval of
\* the heartbeat and, for Self, the online_users query with its bound
\* Date.now() - 15000 evaluated here, once.
PresenceStart(u) ==
    /\ u = Self => (~isDemoMode /\ firebaseUid # NoUser /\ user # NoUser)
    /\ beat[u] = Absent
    /\ online' = [online EXCEPT ![u] = now]
    /\ beat' = [beat EXCEPT ![u] = now + HeartbeatMs]
    /\ queryFloor' = IF u = Self THEN now - ActiveWindowMs ELSE queryFloor
    /\ UNCHANGED <<now, onlineUsersMap>>
    /\ UNCHANGED <<matchVars, feedVars>>
    /\ UNCHANGED appVars

\* The presence effect runs and its setDoc rejects: the catch logs, the
\* interval and the listener are set up all the same.
PresenceStartRejected(u) ==
    /\ u = Self => (~isDemoMode /\ firebaseUid # NoUser /\ user # NoUser)
    /\ beat[u] = Absent
    /\ beat' = [beat EXCEPT ![u] = now + HeartbeatMs]
    /\ queryFloor' = IF u = Self THEN now - ActiveWindowMs ELSE queryFloor
    /\ UNCHANGED <<now, online, onlineUsersMap>>
    /\ UNCHANGED <<matchVars, feedVars>>
    /\ UNCHANGED appVars

\* The interval fires: updateDoc(lastActive: Date.now()), which needs the
\* document to exist; a failure is logged.
HeartbeatTick(u) ==
    /\ beat[u] = now
    /\ online' = IF online[u] # Absent THEN [online EXCEPT ![u] = now] ELSE online
    /\ beat' = [beat EXCEPT ![u] = now + HeartbeatMs]
    /\ UNCHANGED <<now, queryFloor, onlineUsersMap>>
    /\ UNCHANGED <<matchVars, feedVars>>
    /\ UNCHANGED appVars

\* The effect's cleanup on logout: clearInterval, deleteDoc, unsubscribe.
\* handleLogout sets firebaseUid to null and nothing sets it again, so the
\* effect of this client does not run again; a peer may come back with a
\* fresh page.
PresenceStop(u) ==
    /\ beat[u] >= 0
    /\ beat' = [beat EXCEPT ![u] = IF u = Self THEN Stopped ELSE Absent]
    /\ online' = [online EXCEPT ![u] = Absent]
    /\ UNCHANGED <<now, queryFloor, onlineUsersMap>>
    /\ UNCHANGED <<matchVars, feedVars>>
    /\ UNCHANGED appVars

\* Another client's page goes away without cleanup: its interval is gone, its
\* record stays.
ClientGone(u) ==
    /\ u # Self
    /\ beat[u] >= 0
    /\ beat' = [beat EXCEPT ![u] = Absent]
    /\ UNCHANGED <<now, online, queryFloor, onlineUsersMap>>
    /\ UNCHANGED <<matchVars, feedVars>>
    /\ UNCHANGED appVars

\* One second passes; an interval that is due fires first.
Tick ==
    /\ now < MaxTicks * 1000
    /\ \A u \in Users : beat[u] # now
    /\ ~TimerDue
    /\ now' = now + 1000
    /\ UNCHANGED <<online, beat, queryFloor, onlineUsersMap>>
    /\ UNCHANGED <<matchVars, feedVars>>
    /\ UNCHANGED appVars

\* The documents of query(online_users, where('lastActive', '>', queryFloor))
OnlineQuery == {u \in Users : online[u] # Absent /\ online[u] > queryFloor}

\* A callback that keeps every document of the snapshot.
PeerMapAll == [u \in OnlineQuery |-> online[u]]

\* The onSnapshot callback: a new Map of every document of the snapshot that
\* is not the client's own.
PeerMap == [u \in OnlineQuery \ {Self} |-> online[u]]

OnlineSnapshot ==
    /\ beat[Self] >= 0
    /\ onlineUsersMap # PeerMap
    /\ onlineUsersMap' = PeerMap
    /\ UNCHANGED <<now, online, beat, queryFloor>>
    /\ UNCHANGED <<matchVars, feedVars>>
    /\ UNCHANGED appVars

\* The clients that come online in the presence model: Self and one peer.
PresenceUsers == {Self, "bob"}

NextPresence ==
    \/ \E u \in PresenceUsers : PresenceStart(u)
    \/ \E u \in PresenceUsers : HeartbeatTick(u)
    \/ \E u \in PresenceUsers : PresenceStop(u)
    \/ \E u \in PresenceUsers : ClientGone(u)
    \/ Tick
    \/ OnlineSnapshot

SpecPresence == Init /\ [][NextPresence]_vars

\* Presence with an initial write that may be rejected; every later write
\* reaches the store.
NextHeartbeat ==
    \/ \E u \in PresenceUsers : PresenceStart(u)
    \/ \E u \in PresenceUsers : PresenceStartRejected(u)
    \/ \E u \in PresenceUsers : HeartbeatTick(u)
    \/ \E u \in PresenceUsers : PresenceStop(u)
    \/ Tick
    \/ OnlineSnapshot

SpecHeartbeat == Init /\ [][NextHeartbeat]_vars

\* ------------------------------------------------------------------ auth, login, logout
\* onAuthStateChanged calls back: with the persisted anonymous user, or with
\* null, and then signInAnonymously is issued.
AuthStateChanged(hasUser) ==
    /\ authState = "listening"
    /\ IF hasUser
       THEN /\ firebaseUid' = Self
            /\ isDemoMode' = FALSE
            /\ authState' = "signedIn"
       ELSE /\ authState' = "signingIn"
            /\ UNCHANGED <<firebaseUid, isDemoMode>>
    /\ UNCHANGED <<user, logout, alerts, translating>>
    /\ UNCHANGED <<matchVars, feedVars, presenceVars>>
    /\ DemoEffect(timers.echo)

\* signInAnonymously settles: the listener reports the new user, or the
\* rejection reaches handleAuthError.
SignInAnonymously(ok) ==
    /\ authState = "signingIn"
    /\ IF ok
       THEN /\ firebaseUid' = Self
            /\ isDemoMode' = FALSE
            /\ authState' = "signedIn"
       ELSE /\ isDemoMode' = TRUE
            /\ authState' = "error"
            /\ UNCHANGED firebaseUid
    /\ UNCHANGED <<user, logout, alerts, translating>>
    /\ UNCHANGED <<matchVars, feedVars, presenceVars>>
    /\ DemoEffect(timers.echo)

\* The error callback of onAuthStateChanged: handleAuthError.
AuthError ==
    /\ authState = "listening"
    /\ isDemoMode' = TRUE
    /\ authState' = "error"
    /\ UNCHANGED <<firebaseUid, user, logout, alerts, translating>>
    /\ UNCHANGED <<matchVars, feedVars, presenceVars>>
    /\ DemoEffect(timers.echo)

\* handleLogin: the login screen is rendered while there is no user.
HandleLogin ==
    /\ user = NoUser
    /\ user' = Self
    /\ UNCHANGED <<isDemoMode, firebaseUid, authState, logout, alerts, translating>>
    /\ UNCHANGED <<matchVars, feedVars, presenceVars>>
    /\ DemoEffect(timers.echo)

\* The tail of handleLogout: the state setters, and what the render they
\* cause does: the cleanups of the presence effect (clearInterval, deleteDoc)
\* and of the listener effects (unsubscribe), the demo effect.
LogoutReset ==
    /\ user' = NoUser
    /\ firebaseUid' = NoUser
    /\ activeRoom' = "WORLD"
    /\ activeRoomRef' = "WORLD"
    /\ isDemoMode' = FALSE
    /\ roomMessages' = [r \in RoomTypes |-> <<>>]
    /\ unreadCount' = [r \in RoomTypes |-> 0]
    /\ oneOnOne' = [oneOnOne EXCEPT ![Self] = IdleRoom]
    /\ snapshot' = [r \in RoomTypes |-> {}]
    /\ beat' = [beat EXCEPT ![Self] = IF @ >= 0 THEN Stopped ELSE @]
    /\ DemoEffect(timers.echo)

\* handleLogout up to its first await; without a store there is no await.
HandleLogout ==
    /\ user # NoUser
    /\ logout # "deletePresence" /\ logout # "deleteQueue"
    /\ IF ~isDemoMode /\ firebaseUid # NoUser
       THEN /\ logout' = "deletePresence"
            /\ UNCHANGED <<isDemoMode, firebaseUid, user, timers>>
            /\ UNCHANGED <<oneOnOne, roomMessages, unreadCount, activeRoom, activeRoomRef, snapshot, beat, online>>
       ELSE /\ logout' = "idle"
            /\ online' = online
            /\ LogoutReset
    /\ UNCHANGED <<authState, alerts, translating>>
    /\ UNCHANGED <<queue, users, nextSession, calls, clock, leftSession>>
    /\ UNCHANGED <<messages, muted, blockedUsers>>
    /\ UNCHANGED <<now, queryFloor, onlineUsersMap>>

\* await deleteDoc(online_users/uid) settles. A rejection leaves the async
\* function: nothing after the await runs.
LogoutDeletePresence(ok) ==
    /\ logout = "deletePresence"
    /\ online' = IF ok THEN [online EXCEPT ![Self] = Absent] ELSE online
    /\ logout' = IF ok THEN "deleteQueue" ELSE "rejected"
    /\ UNCHANGED <<now, beat, queryFloor, onlineUsersMap>>
    /\ UNCHANGED <<isDemoMode, firebaseUid, user, authState, timers, alerts, translating>>
    /\ UNCHANGED <<matchVars, feedVars>>

\* await deleteDoc(queue/uid) settles; after it the state is reset.
LogoutDeleteQueue(ok) ==
    /\ logout = "deleteQueue"
    /\ IF ok
       THEN /\ queue' = [queue EXCEPT ![Self] = 0]
            /\ logout' = "idle"
            /\ online' = [online EXCEPT ![Self] = Absent]
            /\ LogoutReset
       ELSE /\ logout' = "rejected"
            /\ UNCHANGED <<queue, online>>
            /\ UNCHANGED <<isDemoMode, firebaseUid, user, timers>>
            /\ UNCHANGED <<oneOnOne, roomMessages, unreadCount, activeRoom, activeRoomRef, snapshot, beat>>
    /\ UNCHANGED <<authState, alerts, translating>>
    /\ UNCHANGED <<users, nextSession, calls, clock, leftSession>>
    /\ UNCHANGED <<messages, muted, blockedUsers>>
    /\ UNCHANGED <<now, queryFloor, onlineUsersMap>>

\* ------------------------------------------------------------------ demo mode
DemoSession == -1
Bot == "Plyxor Bot"
SystemSender == "System"
WorldUser == "User7"
SeedText == <<"D", "e", "m", "o">>
HelloText == <<"H", "e", "l", "l", "o">>
EchoText(text) == <<"E", "c", "h", "o", ":", " ">> \o text

\* The messages built in demo mode carry no roomId.
NoRoomId == RoomId("undefined", "", "", NoSession)

\* The id of a simulated world message: Date.now().toString() + Math.random(),
\* which differs from every id that is a bare Date.now().
WorldId(t) == 0 - (t + 1)

\* The match timeout fires: partner, session and the two seed messages.
DemoMatchFires ==
    /\ Due(timers.match)
    /\ oneOnOne' = [oneOnOne EXCEPT ![Self] =
          [isSearching |-> FALSE, sessionId |-> DemoSession, connectedPartner |-> Bot]]
    /\ roomMessages' = [roomMessages EXCEPT !["ONE_ON_ONE"] =
          <<Message(now, SystemSender, now, NoRoomId, SeedText),
            Message(now + 1, Bot, now, NoRoomId, HelloText)>>]
    /\ UNCHANGED <<queue, users, nextSession, calls, clock, leftSession>>
    /\ UNCHANGED <<messages, unreadCount, muted, activeRoom, activeRoomRef, blockedUsers, snapshot>>
    /\ UNCHANGED <<isDemoMode, firebaseUid, user, authState, logout, alerts, translating>>
    /\ UNCHANGED presenceVars
    /\ DemoEffect(timers.echo)

\* The world interval fires; Math.random() > 0.8 decides whether a message of
\* a random user is appended to the world room.
DemoWorldFires(post) ==
    /\ Due(timers.world)
    /\ post => Len(roomMessages["WORLD"]) < MaxDemoMsgs
    /\ roomMessages' = IF post
          THEN [roomMessages EXCEPT !["WORLD"] =
                   Append(@, Message(WorldId(now), WorldUser, now, NoRoomId, PlainText))]
          ELSE roomMessages
    /\ timers' = [timers EXCEPT !.world = now + WorldPeriodMs]
    /\ UNCHANGED <<messages, unreadCount, muted, activeRoom, activeRoomRef, blockedUsers, snapshot>>
    /\ UNCHANGED <<isDemoMode, firebaseUid, user, authState, logout, alerts, translating>>
    /\ UNCHANGED <<matchVars, presenceVars>>

\* handleSendMessage in demo mode: the message is appended to the foreground
\* room; in the one-on-one room an echo timeout is started, which nothing
\* clears. The input is disabled in a one-on-one room without partner.
DemoSendMessage(text) ==
    /\ user # NoUser
    /\ isDemoMode
    /\ activeRoom = "ONE_ON_ONE" => oneOnOne[Self].connectedPartner # NoUser
    /\ Cardinality({rm \in RoomTypes \X (1..(MaxDemoMsgs + 3)) :
              /\ rm[2] <= Len(roomMessages[rm[1]])
              /\ roomMessages[rm[1]][rm[2]].sender = Self}) < MaxDemoMsgs
    /\ activeRoom = "ONE_ON_ONE" => Len(timers.echo) < MaxEcho
    /\ roomMessages' = [roomMessages EXCEPT ![activeRoom] =
          Append(@, Message(now, Self, now, NoRoomId, text))]
    /\ timers' = IF activeRoom = "ONE_ON_ONE"
                 THEN [timers EXCEPT !.echo =
                          Append(@, [due |-> now + EchoDelayMs, room |-> activeRoom,
                                     text |-> text, id |-> now])]
                 ELSE timers
    /\ UNCHANGED <<messages, unreadCount, muted, activeRoom, activeRoomRef, blockedUsers, snapshot>>
    /\ UNCHANGED <<isDemoMode, firebaseUid, user, authState, logout, alerts, translating>>
    /\ UNCHANGED <<matchVars, presenceVars>>

\* An echo timeout fires: the reply, whose replyTo holds the id of the message
\* it answers, is appended to the room the closure captured.
DemoEchoFires ==
    /\ timers.echo # <<>>
    /\ Due(Head(timers.echo).due)
    /\ LET e == Head(timers.echo)
       IN roomMessages' = [roomMessages EXCEPT ![e.room] =
             Append(@, [Message(now + 10, Bot, now, NoRoomId, EchoText(e.text))
                           EXCEPT !.replyTo = {e.id}])]
    /\ timers' = [timers EXCEPT !.echo = Tail(@)]
    /\ UNCHANGED <<messages, unreadCount, muted, activeRoom, activeRoomRef, blockedUsers, snapshot>>
    /\ UNCHANGED <<isDemoMode, firebaseUid, user, authState, logout, alerts, translating>>
    /\ UNCHANGED <<matchVars, presenceVars>>

\* Time in the demo model.
DemoTick == now < MaxDemoTicks * 1000 /\ Tick

\* Self's page from its load: the auth effect has run on mount, with the auth
\* object missing (demo mode at once) or with the listener attached; nobody
\* is logged in and no other client is around.
InitPage ==
    /\ InitMatch
    /\ InitRooms
    /\ InitPresence
    /\ authState \in {"missing", "listening"}
    /\ isDemoMode = (authState = "missing")
    /\ firebaseUid = NoUser
    /\ user = NoUser
    /\ logout = "idle"
    /\ timers = NoTimers
    /\ alerts = {}
    /\ translating = {}

NextPage ==
    \/ \E hasUser \in BOOLEAN : AuthStateChanged(hasUser)
    \/ \E ok \in BOOLEAN : SignInAnonymously(ok)
    \/ AuthError
    \/ HandleLogin
    \/ HandleLogout
    \/ \E ok \in BOOLEAN : LogoutDeletePresence(ok)
    \/ \E ok \in BOOLEAN : LogoutDeleteQueue(ok)
    \/ \E r \in RoomTypes : HandleSelectRoom(Self, r, TRUE)
    \/ HandleSkip(Self)
    \/ DemoMatchFires
    \/ \E post \in BOOLEAN : DemoWorldFires(post)
    \/ DemoSendMessage(PlainText)
    \/ DemoEchoFires
    \/ PresenceStart(Self)
    \/ HeartbeatTick(Self)
    \/ DoSetDoc(Self)
    \/ DoTxCallback(Self)
    \/ DoTxCommit(Self)
    \/ DoTxFail(Self)
    \/ DemoTick

SpecPage == InitPage /\ [][NextPage]_vars

\* Ten milliseconds pass; a timer that is due fires first.
DemoClock ==
    /\ now < MaxDemoClock
    /\ ~TimerDue
    /\ now' = now + 10
    /\ UNCHANGED <<online, beat, queryFloor, onlineUsersMap>>
    /\ UNCHANGED <<matchVars, feedVars>>
    /\ UNCHANGED appVars

\* A demo conversation, half a second after the match timeout of a search
\* started at 0 has fired: the seed messages carry the ids of that moment,
\* the world interval is armed.
InitDemoIds ==
    /\ queue = [u \in Users |-> 0]
    /\ users = [u \in Users |-> NoPointer]
    /\ nextSession = 0
    /\ oneOnOne = [u \in Users |->
          IF u = Self
          THEN [isSearching |-> FALSE, sessionId |-> DemoSession, connectedPartner |-> Bot]
          ELSE IdleRoom]
    /\ calls = [u \in Users |-> EmptyBag]
    /\ clock = [u \in Users |-> 0]
    /\ leftSession = [u \in Users |-> NoSession]
    /\ messages = {}
    /\ roomMessages = [r \in RoomTypes |->
          IF r = "ONE_ON_ONE"
          THEN <<Message(MatchDelayMs, SystemSender, MatchDelayMs, NoRoomId, SeedText),
                 Message(MatchDelayMs + 1, Bot, MatchDelayMs, NoRoomId, HelloText)>>
          ELSE <<>>]
    /\ unreadCount = [r \in RoomTypes |-> 0]
    /\ muted = [r \in RoomTypes |-> FALSE]
    /\ activeRoom = "ONE_ON_ONE"
    /\ activeRoomRef = "ONE_ON_ONE"
    /\ blockedUsers = {}
    /\ snapshot = [r \in RoomTypes |-> {}]
    /\ now = MatchDelayMs + 500
    /\ online = [u \in Users |-> Absent]
    /\ beat = [u \in Users |-> Absent]
    /\ queryFloor = 0
    /\ onlineUsersMap = <<>>
    /\ authState = "missing"
    /\ isDemoMode = TRUE
    /\ firebaseUid = NoUser
    /\ user = Self
    /\ logout = "idle"
    /\ timers = [match |-> Absent, world |-> MatchDelayMs + WorldPeriodMs, echo |-> <<>>]
    /\ alerts = {}
    /\ translating = {}

NextDemoIds ==
    \/ DemoSendMessage(PlainText)
    \/ DemoEchoFires
    \/ DemoClock

SpecDemoIds == InitDemoIds /\ [][NextDemoIds]_vars

\* ------------------------------------------------------------------ room states
Active(sid, p) == [isSearching |-> FALSE, sessionId |-> sid, connectedPartner |-> p]
Searching == [isSearching |-> TRUE, sessionId |-> NoSession, connectedPartner |-> NoUser]

\* The step in which u's buffered match c is committed.
CommitsMatch(u, c) ==
    /\ c \in InFlight(u)
    /\ c.stage = "commit"
    /\ c.partner # NoUser
    /\ calls'[u] = DropCall(calls[u], c)
    /\ users'[u] = MatchedPointer(c.sid, c.partner)

\* ------------------------------------------------------------------ claims: matchmaking
\* C1: a queue entry is consumed by at most one match. An entry is a user's
\* queue document with its timestamp; a match consumes it by deleting it, so
\* every committing match must find the very document its callback read
\* still in the queue.
C1_EntryConsumedOnce ==
    [][\A u \in Users : \A c \in InFlight(u) :
          CommitsMatch(u, c) => (queue[c.partner] # 0 /\ queue[c.partner] = c.seen)]_vars

\* The sessions a user holds: the one its SessionPointer names while matched
\* and the one its local one-on-one room shows.
HeldSessions(u) ==
    ((IF users[u].status = "matched" THEN {users[u].sessionId} ELSE {})
        \cup {oneOnOne[u].sessionId}) \ {NoSession}

\* C2: no user holds two distinct session ids at once, and no pointer or room
\* pairs a user with themselves.
C2_PerfectMatching ==
    \A u \in Users :
        /\ Cardinality(HeldSessions(u)) <= 1
        /\ users[u].partner # u
        /\ oneOnOne[u].connectedPartner # u

\* C3: a match is applied atomically; a local room that shows session S with
\* partner p belongs to a committed match, i.e. the client's SessionPointer
\* is matched with S and p.
C3_MatchAtomic ==
    \A u \in Users :
        oneOnOne[u].sessionId # NoSession =>
            users[u] = MatchedPointer(oneOnOne[u].sessionId, oneOnOne[u].connectedPartner)

\* C4: a QueueEntry of u exists only while u's SessionPointer is searching.
C4_EntryOnlyWhileSearching ==
    \A u \in Users : queue[u] # 0 => users[u].status = "searching"

\* C10: after a skip, once no startSearch of the user is in flight, the user
\* has no queue entry while not searching and its pointer is not matched with
\* the session it left.
C10_SkipLeavesNoOrphan ==
    \A u \in Users :
        (leftSession[u] # NoSession /\ calls[u] = EmptyBag) =>
            /\ queue[u] # 0 => (users[u].status = "searching" /\ oneOnOne[u].isSearching)
            /\ ~(users[u].status = "matched" /\ users[u].sessionId = leftSession[u])

\* C11: u skips a second time before the search of its first skip has
\* completed (the match that search buffered commits only after u has left
\* the session it made); when that search commits, at most one other user has
\* a matched SessionPointer naming u as partner.
C11_SkipTwice ==
    [][\A u \in Users : \A c \in InFlight(u) :
          (c.sid # NoSession /\ leftSession[u] = c.sid /\ CommitsMatch(u, c))
          => Cardinality({v \in Users \ {u} :
                 users'[v].status = "matched" /\ users'[v].partner = u}) <= 1]_vars

\* C5 (Scenario A): a is Waiting after its transaction, no match has been
\* made yet, and b's transaction runs after it.
ScenarioWaiting(a) ==
    /\ calls[a] = EmptyBag
    /\ queue[a] # 0
    /\ users[a] = SearchingPointer
    /\ oneOnOne[a] = Searching

\* Before any match, whoever has a queue entry is Waiting: its transaction is
\* done, its pointer is searching and its room shows the search.
ScenarioA_Waiting ==
    \A a \in ScenarioUsers : (nextSession = 0 /\ queue[a] # 0) => ScenarioWaiting(a)

\* b's callback finds a: MatchedNow with partner a and the fresh session 1.
ScenarioA_MatchedNow ==
    [][\A a, b \in ScenarioUsers :
          (a # b /\ nextSession = 0 /\ ScenarioWaiting(a)
             /\ Call("read", NoUser, NoSession, 0) \in InFlight(b) /\ calls'[b] # calls[b])
          => (oneOnOne'[b] = Active(1, a) /\ Call("commit", a, 1, queue[a]) \in BagToSet(calls'[b]))]_vars

\* b's commit empties the queue and writes both pointers.
ScenarioA_Committed ==
    [][\A a, b \in ScenarioUsers : \A c \in InFlight(b) :
          (a # b /\ nextSession = 1 /\ ScenarioWaiting(a) /\ CommitsMatch(b, c))
          => (/\ queue' = [u \in Users |-> 0]
              /\ users'[a] = MatchedPointer(1, b)
              /\ users'[b] = MatchedPointer(1, a))]_vars

\* a's passive subscription then moves a to active with the same session and
\* partner b (unless a further match has been started in the meantime).
ScenarioA_PassiveSide ==
    \A a, b \in ScenarioUsers :
        (/\ a # b /\ nextSession = 1 /\ calls[a] = EmptyBag
         /\ users[a] = MatchedPointer(1, b) /\ oneOnOne[a] = Searching)
            ~> (oneOnOne[a] = Active(1, b) \/ nextSession > 1)

\* C5: Scenario A, from the empty queue: a Waiting, then b MatchedNow with a
\* and session 1, the queue empty after b's commit, and a eventually active
\* in session 1 with partner b.
C5_ScenarioA ==
    /\ []ScenarioA_Waiting
    /\ ScenarioA_MatchedNow
    /\ ScenarioA_Committed
    /\ ScenarioA_PassiveSide

C5_Witness ==
    /\ nextSession = 1
    /\ queue = [u \in Users |-> 0]
    /\ clock["alice"] > 0 /\ clock["bob"] = 0
    /\ users["alice"] = MatchedPointer(1, "bob") /\ users["bob"] = MatchedPointer(1, "alice")
    /\ oneOnOne["alice"] = Active(1, "bob") /\ oneOnOne["bob"] = Active(1, "alice")
    /\ calls["alice"] = EmptyBag /\ calls["bob"] = EmptyBag

\* C21: a room takes a session from the SessionPointer (a step that makes it
\* active without generating a session id) only while it is searching and
\* the pointer is matched; the room then is active with the pointer's
\* sessionId and partner, Self's session feed is a fresh subscription to that
\* session; a pointer change while the room is not searching leaves the room
\* as it is.
C21_PassiveOnlyWhileSearching ==
    [][\A u \in Users :
          /\ (/\ oneOnOne'[u] # oneOnOne[u]
              /\ oneOnOne'[u].sessionId # NoSession
              /\ nextSession' = nextSession)
             => /\ oneOnOne[u].isSearching
                /\ users[u].status = "matched"
                /\ oneOnOne'[u] = Active(users[u].sessionId, users[u].partner)
                /\ u = Self => snapshot'["ONE_ON_ONE"] = {}
          /\ (~oneOnOne[u].isSearching /\ users'[u] # users[u])
             => oneOnOne'[u] = oneOnOne[u]]_vars

\* u waited in the queue and was made active by her passive listener; her
\* pointer was overwritten with another session afterwards and the room kept
\* the first one.
C21_Witness ==
    \E u \in Users :
        /\ clock[u] > 0
        /\ InFlight(u) = {}
        /\ ~oneOnOne[u].isSearching
        /\ oneOnOne[u].sessionId # NoSession
        /\ users[u].status = "matched"
        /\ users[u].sessionId # oneOnOne[u].sessionId

\* ------------------------------------------------------------------ claims: room feeds
\* C6: no room of Self holds two messages with the same id, also after the
\* listeners were replaced and delivered their initial batch again.
C6_NoDuplicateIds ==
    \A r \in RoomTypes : \A i, j \in 1..Len(roomMessages[r]) :
        i # j => roomMessages[r][i].id # roomMessages[r][j].id

\* The world room holds only bob's messages, counted as unread when they
\* first arrived; bob was blocked from another room afterwards and the
\* replaced world listener has delivered its batch again.
C6_Witness ==
    /\ blockedUsers = {"bob"}
    /\ activeRoom # "WORLD"
    /\ unreadCount["WORLD"] >= 1
    /\ Len(roomMessages["WORLD"]) >= 1
    /\ \A i \in 1..Len(roomMessages["WORLD"]) : roomMessages["WORLD"][i].sender = "bob"
    /\ snapshot["WORLD"] # {}
    /\ Ids(roomMessages["WORLD"]) = {m.id : m \in snapshot["WORLD"]}

\* C7: in every room adjacent messages are in non-decreasing timestamp order.
C7_TimestampOrder ==
    \A r \in RoomTypes : \A i \in 1..(Len(roomMessages[r]) - 1) :
        roomMessages[r][i].timestamp <= roomMessages[r][i + 1].timestamp

\* C8: when a listener appends one message of another, unblocked user to an
\* unmuted room r, unreadCount of r grows by 1 if r is not the foreground room
\* and by 0 if it is, the one-on-one room included.
C8_NotificationPolicy ==
    [][\A r \in RoomTypes :
          (/\ Len(roomMessages'[r]) = Len(roomMessages[r]) + 1
           /\ roomMessages'[r][Len(roomMessages'[r])].sender \notin blockedUsers \cup {Self}
           /\ ~muted[r])
          => unreadCount'[r] = unreadCount[r] + (IF activeRoom = r THEN 0 ELSE 1)]_vars

\* C17: when a room's history is longer than the query limit, the batch the
\* listener delivers is the limit's worth of most recent messages, and the
\* room lists them in ascending timestamp order.
C17_MostRecentBatch ==
    \A r \in RoomTypes :
        LET history == InRoom(messages, RoomIdOf(Self, r))
        IN (Cardinality(history) > FeedLimit /\ snapshot[r] # {}) =>
              /\ Cardinality(snapshot[r]) = FeedLimit
              /\ \A m \in snapshot[r] : \A n \in history \ snapshot[r] :
                    n.timestamp <= m.timestamp
              /\ \A i \in 1..(Len(roomMessages[r]) - 1) :
                    roomMessages[r][i].timestamp <= roomMessages[r][i + 1].timestamp

\* C19: when a listener adds a new message to a room, a mention alert is
\* raised for it exactly when its text contains "@" + Self's username and its
\* sender is neither blocked nor Self, whatever the room's foreground, mute or
\* unread state.
C19_MentionAlert ==
    [][\A r \in RoomTypes : \A i \in 1..Len(roomMessages'[r]) :
          LET m == roomMessages'[r][i]
          IN m.id \notin Ids(roomMessages[r]) =>
                (m.id \in alerts' <=>
                    (/\ Includes(m.text, <<"@">> \o Name(Self))
                     /\ m.sender \notin blockedUsers
                     /\ m.sender # Self))]_vars

\* The translation call failed or yielded nothing.
NoTranslation(response) ==
    response.kind = "error" \/ response.text = Undefined \/ response.text = <<>>

\* C16: translateMessage never throws and returns the original text when the
\* call fails or yields an empty result; handleTranslateMessage then stores
\* the returned text as the translation of the message with that id.
C16_TranslateFallback ==
    [][/\ \A c \in translating' :
             c.stage # "called" =>
                /\ c.stage = "returned"
                /\ NoTranslation(c.response) => c.translated = c.text
       /\ \A c \in translating \ translating' :
             c.stage = "returned" =>
                \A i \in 1..Len(roomMessages'[c.room]) :
                   roomMessages'[c.room][i].id = c.id =>
                      roomMessages'[c.room][i].translation = c.translated]_vars

\* A failed or empty translation was stored: a message carries its own text
\* as translation.
C16_Witness ==
    \E r \in RoomTypes : \E i \in 1..Len(roomMessages[r]) :
        roomMessages[r][i].translation = roomMessages[r][i].text

\* The positions of room r's list that hold message m.
Positions(list, m) == {i \in 1..Len(list) : list[i] = m}

\* C20: a send in store mode adds nothing to the local lists: a message of
\* Self that newly appears in one of her rooms was in the store before that
\* step (it arrives through the subscription), and it appears at most once.
C20_NoOptimisticEcho ==
    [][\A r \in RoomTypes : \A i \in 1..Len(roomMessages'[r]) :
          LET m == roomMessages'[r][i]
          IN m.sender = Self =>
                /\ Cardinality(Positions(roomMessages'[r], m)) = 1
                /\ Positions(roomMessages[r], m) = {} => m \in messages]_vars

\* Self has sent to her foreground room and the subscription has delivered
\* her own message.
C20_Witness ==
    /\ \E i \in 1..Len(roomMessages[activeRoom]) :
          /\ roomMessages[activeRoom][i].sender = Self
          /\ roomMessages[activeRoom][i] \in snapshot[activeRoom]
    /\ \E m \in messages : m.sender = Self /\ m.roomId = RoomIdOf(Self, activeRoom)

\* C18: no message of a blocked sender is rendered, neither in the chat
\* window's message list nor in a chat list row's last-message preview.
C18_BlockedHidden ==
    \A r \in RoomTypes :
        /\ \A i \in 1..Len(VisibleMessages(r)) : VisibleMessages(r)[i].sender \notin blockedUsers
        /\ \A m \in PreviewMessages(r) : m.sender \notin blockedUsers

\* ------------------------------------------------------------------ claims: auth, logout, demo mode
\* C12: a failure of the auth service switches the client to demo mode, and
\* isDemoMode, once true, never becomes false again.
C12_DemoPermanent ==
    [][/\ (authState # "error" /\ authState' = "error") => isDemoMode'
       /\ isDemoMode => isDemoMode']_vars

\* C13: while a demo search is pending its match timer is armed whichever
\* room is in the foreground, so that the match needs no further user action;
\* the match makes the room active with a partner, a session and exactly two
\* seed messages; nothing is written to the store in demo mode.
C13_DemoSearchMatches ==
    [][/\ (isDemoMode' /\ user' # NoUser /\ oneOnOne'[Self].isSearching)
             => timers'.match # Absent
       /\ (isDemoMode /\ oneOnOne[Self].isSearching /\ oneOnOne'[Self].sessionId # NoSession)
             => /\ ~oneOnOne'[Self].isSearching
                /\ oneOnOne'[Self].connectedPartner # NoUser
                /\ Len(roomMessages'["ONE_ON_ONE"]) = 2
       /\ (isDemoMode /\ isDemoMode')
             => UNCHANGED <<queue, users, messages, online>>]_vars

\* The state handleLogout leaves behind: nobody logged in, every room empty
\* and read, the one-on-one room idle, no listener and no heartbeat.
LoggedOut ==
    /\ user = NoUser
    /\ \A r \in RoomTypes : roomMessages[r] = <<>> /\ unreadCount[r] = 0 /\ snapshot[r] = {}
    /\ oneOnOne[Self] = IdleRoom
    /\ beat[Self] < 0

\* C14: when an invocation of handleLogout ends, with its deletes succeeded
\* or failed, the client is logged out.
C14_LogoutBestEffort ==
    [][(logout \in {"deletePresence", "deleteQueue"} /\ logout' \in {"idle", "rejected"})
          => LoggedOut']_vars

\* C15: while nobody is logged in, no step changes a room's messages,
\* unreadCount or session fields, or writes to the store.
C15_NothingSurvivesLogout ==
    [][(user = NoUser /\ user' = NoUser)
          => /\ UNCHANGED <<roomMessages, unreadCount>>
             /\ oneOnOne'[Self] = oneOnOne[Self]
             /\ UNCHANGED <<queue, users, messages, online>>]_vars

\* ------------------------------------------------------------------ claims: presence
\* C9: while Self's presence runs and its listener is up to date, a peer is in
\* the active-peer map exactly when its record is younger than 15000 ms.
C9_ActiveWithinWindow ==
    (beat[Self] >= 0 /\ onlineUsersMap = PeerMap) =>
        \A p \in Users \ {Self} :
            p \in DOMAIN onlineUsersMap <=> (online[p] # Absent /\ now - online[p] < ActiveWindowMs)

\* C22: the map of active peers never holds the record whose userId is the
\* client's own, whatever online_users snapshots were delivered.
C22_OwnRecordExcluded == Self \notin DOMAIN onlineUsersMap

\* A snapshot whose documents included Self's own record and a peer's has
\* been applied.
C22_Witness ==
    /\ Self \in OnlineQuery
    /\ "bob" \in DOMAIN onlineUsersMap
    /\ onlineUsersMap = PeerMap

\* ------------------------------------------------------------------ claims: demo replies

\* C23: every synthetic reply in the one-on-one room stands after the message
\* it answers: an earlier message of the same list, sent by Self, has the id
\* the reply carries in replyTo.
C23_ReplyFollowsItsMessage ==
    LET msgs == roomMessages["ONE_ON_ONE"]
    IN \A i \in 1..Len(msgs) :
          msgs[i].replyTo # {}
             => \E j \in 1..(i - 1) :
                   msgs[j].sender = Self /\ msgs[i].replyTo = {msgs[j].id}

\* ------------------------------------------------------------------ claims: enqueue

\* The earliest queue document among those of users other than u.
EarliestOther(q, u) ==
    CHOOSE a \in QueueDocs(q) \ {u} : \A b \in QueueDocs(q) \ {u} : Before(q, a, b)

\* The step in which u's transaction callback reads the queue and buffers c.
ReadsQueue(u, c) ==
    /\ Call("read", NoUser, NoSession, 0) \in InFlight(u)
    /\ c.stage = "commit"
    /\ calls'[u] = AddCall(DropCall(calls[u], Call("read", NoUser, NoSession, 0)), c)

\* C24: when the queue holds a document of another user as the callback reads
\* it, the callback matches the earliest of the documents that are not the
\* caller's own and makes the room active with that partner, whether or not
\* the caller's own document is in the queue.
C24_MatchesEarliestOther ==
    [][\A u \in Users : \A c \in BagToSet(calls'[u]) :
          (ReadsQueue(u, c) /\ QueueDocs(queue) \ {u} # {})
             => /\ c.partner = EarliestOther(queue, u)
                /\ oneOnOne'[u] = Active(c.sid, c.partner)]_vars

\* The step in which u's buffered queue document c is committed.
CommitsQueueDoc(u, c) ==
    /\ c \in InFlight(u)
    /\ c.stage = "commit"
    /\ c.partner = NoUser
    /\ calls'[u] = DropCall(calls[u], c)
    /\ queue'[u] # queue[u]

\* C25: when a search found no candidate, its commit leaves the caller with
\* its queue document, a SessionPointer of status searching and a room that
\* is still searching.
C25_QueuedWhileSearching ==
    [][\A u \in Users : \A c \in InFlight(u) :
          CommitsQueueDoc(u, c)
             => /\ queue'[u] # 0
                /\ users'[u].status = "searching"
                /\ oneOnOne'[u].isSearching]_vars

\* C26: a failed transaction is retried, so no user is left with a room that
\* is searching while it has no queue document, no matched SessionPointer
\* and no startSearch call in flight.
C26_NoStrandedSearch ==
    \A u \in Users :
        (oneOnOne[u].isSearching /\ InFlight(u) = {})
           => (queue[u] # 0 \/ users[u].status = "matched")

\* ------------------------------------------------------------------ claims: one match, two paths

\* C27: when a room is active and the SessionPointer of its user delivers the
\* match the room already has (status matched, the room's sessionId), the
\* listener's update of the room yields the room as it is: the same
\* sessionId, connectedPartner and isSearching, and, the sessionId being the
\* same, no new subscription of the session feed and the same messages.
C27_SameMatchTwice ==
    \A u \in Users :
        (/\ ~oneOnOne[u].isSearching
         /\ oneOnOne[u].sessionId # NoSession
         /\ users[u].status = "matched"
         /\ users[u].sessionId = oneOnOne[u].sessionId)
           => PointerResult(oneOnOne[u], users[u]) = oneOnOne[u]

\* u never waited in the queue, so its room was made active by its own
\* enqueue, and the committed pointer now delivers the same match.
C27_Witness ==
    \E u \in Users :
        /\ clock[u] = 0
        /\ InFlight(u) = {}
        /\ ~oneOnOne[u].isSearching
        /\ oneOnOne[u].sessionId # NoSession
        /\ users[u] = MatchedPointer(oneOnOne[u].sessionId, oneOnOne[u].connectedPartner)

\* ------------------------------------------------------------------ claims: unread counts

\* C28: a listener callback whose added messages are each sent by Self, or
\* sent by a blocked user, or already in the room by their id, or that
\* arrive in a muted room, leaves the room's unreadCount as it was.
C28_UnreadFrame ==
    [][\A r \in RoomTypes :
          LET arrived == snapshot'[r] \ snapshot[r]
          IN (/\ arrived # {}
              /\ \A m \in arrived :
                    \/ m.sender = Self
                    \/ muted[r]
                    \/ m.sender \in blockedUsers
                    \/ m.id \in Ids(roomMessages[r]))
                => unreadCount'[r] = unreadCount[r]]_vars

\* A muted background room that was never counted up holds a delivered
\* message of another user, and a blocked user's message was delivered again
\* to a background room that already had it.
C28_Witness ==
    /\ \E r \in BroadcastRooms :
          /\ r # activeRoom
          /\ muted[r]
          /\ unreadCount[r] = 0
          /\ \E m \in snapshot[r] : m.sender # Self /\ m.id \in Ids(roomMessages[r])
    /\ \E r \in BroadcastRooms :
          /\ r # activeRoom
          /\ \E m \in snapshot[r] : m.sender \in blockedUsers

RECURSIVE Redelivered(_, _, _, _, _)
Redelivered(room, added, foreground, isMuted, blocked) ==
    IF added = <<>> THEN room
    ELSE Redelivered(RoomAdded(room, Head(added), foreground, isMuted, blocked),
                     Tail(added), foreground, isMuted, blocked)

\* C30: when a user is blocked, the new listener of every broadcast room,
\* handed again the documents the replaced listener had delivered, adds none
\* of them to the room, a message removed locally included, and leaves the
\* room's unreadCount as it is.
C30_BlockResurrectsNothing ==
    [][blockedUsers' # blockedUsers
          => \A r \in BroadcastRooms :
                LET room == [messages |-> roomMessages'[r], unreadCount |-> unreadCount'[r]]
                IN Redelivered(room, InQueryOrder(snapshot[r]), activeRoomRef' = r,
                               muted'[r], blockedUsers') = room]_vars

\* ------------------------------------------------------------------ claims: heartbeat

\* C31: a heartbeat is an upsert: every interval tick of a started presence,
\* its write reaching the store, leaves the user's PresenceRecord in the
\* store with lastActive equal to the time of the tick, whether or not the
\* record was there before the tick.
C31_HeartbeatUpserts ==
    [][\A u \in Users :
          (beat[u] = now /\ beat'[u] = now + HeartbeatMs) => online'[u] = now]_vars

\* ------------------------------------------------------------------ claims: message fields

\* The fields of a message that are written once.
Written(m) ==
    [id |-> m.id, sender |-> m.sender, text |-> m.text, timestamp |-> m.timestamp,
     replyTo |-> m.replyTo]

C33_DemoIdsDistinct ==
    isDemoMode =>
        \A r \in RoomTypes : \A i, j \in 1..Len(roomMessages[r]) :
            i # j => roomMessages[r][i].id # roomMessages[r][j].id

\* ------------------------------------------------------------------ claims: queue

\* C34: once no startSearch call is in flight, the queue holds the document
\* of at most one user: two searching users are never both left waiting.
C34_NoTwoWaiting ==
    (\A u \in Users : InFlight(u) = {}) => Cardinality(QueueDocs(queue)) <= 1

\* ------------------------------------------------------------------ claims: room states

\* C35: every client's one-on-one room is idle, searching or active: it has a
\* sessionId exactly when it has a connectedPartner, and while it is
\* searching it has neither.
C35_RoomStateConsistent ==
    \A u \in Users :
        /\ (oneOnOne[u].sessionId # NoSession) <=> (oneOnOne[u].connectedPartner # NoUser)
        /\ oneOnOne[u].isSearching
              => (oneOnOne[u].sessionId = NoSession /\ oneOnOne[u].connectedPartner = NoUser)

\* One client searches while another has an active room and a third is idle.
C35_Witness ==
    \E u, v, w \in Users :
        /\ oneOnOne[u] = Searching
        /\ oneOnOne[v].sessionId # NoSession /\ oneOnOne[v].connectedPartner # NoUser
        /\ oneOnOne[w] = IdleRoom
        /\ clock[u] > 0


\* ------------------------------------------------------------------ delivery of written messages
\* handleSendMessage on a store that may hold more documents of a room than
\* one query of the room's listener returns.
HandleSendMessageStored(u, r, text) ==
    /\ u = Self => (r = activeRoom /\ user # NoUser /\ ~isDemoMode /\ firebaseUid # NoUser)
    /\ r = "ONE_ON_ONE" => oneOnOne[u].sessionId # NoSession
    /\ Cardinality(messages) < MaxStored
    /\ \E t \in 1..MaxTs :
          /\ \A m \in messages : m.timestamp <= t
          /\ messages' = messages \cup
                {Message(Cardinality(messages) + 1, u, t, RoomIdOf(u, r), text)}
    /\ UNCHANGED <<roomMessages, unreadCount, muted, activeRoom, activeRoomRef, blockedUsers, snapshot>>
    /\ UNCHANGED <<matchVars, presenceVars>>
    /\ UNCHANGED appVars

NextDeliver ==
    \/ \E u \in Users, r \in RoomTypes : HandleSendMessageStored(u, r, PlainText)
    \/ \E r \in RoomTypes : FeedSnapshot(r)
    \/ \E r \in RoomTypes : HandleSelectRoom(Self, r, TRUE)

SpecDeliver == InitFeed /\ [][NextDeliver]_vars

\* C36: every message written to a room is delivered to every client subscribed
\* to that room, however many messages the room already stores: once the
\* listener of a room has nothing left to deliver, every document stored for
\* the room's roomId is an entry of the room's feed.
C36_WrittenIsDelivered ==
    \A r \in RoomTypes :
        (Subscribed(r) /\ Added(r) = {}) =>
            \A m \in InRoom(messages, RoomIdOf(Self, r)) : m.id \in Ids(roomMessages[r])

\* ------------------------------------------------------------------ claims: login after logout
\* No step of the auth effect is outstanding: the listener has called back and
\* signInAnonymously, if issued, has settled; or there is no auth object.
AuthSettled == authState \in {"missing", "signedIn", "error"}

\* C37: after a logout and a new login the client is operational again: it
\* holds a user identifier or it is in demo mode. Once the auth effect has
\* nothing outstanding, a logged-in client is never left with neither.
C37_OperationalAfterLogin ==
    (user # NoUser /\ AuthSettled /\ logout = "idle") => (firebaseUid # NoUser \/ isDemoMode)

\* A client with neither a user identifier nor demo mode stays so from then
\* on, once the auth effect has nothing outstanding.
C37_StuckForGood ==
    [][(AuthSettled /\ firebaseUid = NoUser /\ ~isDemoMode)
          => (firebaseUid' = NoUser /\ ~isDemoMode')]_vars

\* ------------------------------------------------------------------ claims: session of the one-on-one feed
\* C38: in store mode every entry of the one-on-one room's messages has the
\* roomId of the room's current session, so no message of an earlier session
\* is present after a skip or a new match.
C38_FeedOfCurrentSession ==
    ~isDemoMode =>
        \A i \in 1..Len(roomMessages["ONE_ON_ONE"]) :
            /\ roomMessages["ONE_ON_ONE"][i].roomId = RoomIdOf(Self, "ONE_ON_ONE")
            /\ leftSession[Self] # NoSession =>
                   roomMessages["ONE_ON_ONE"][i].roomId.session # leftSession[Self]

\* The first half of C38 alone: every entry has the roomId of the session the
\* room shows.
C38_RoomIdOfShownSession ==
    ~isDemoMode =>
        \A i \in 1..Len(roomMessages["ONE_ON_ONE"]) :
            roomMessages["ONE_ON_ONE"][i].roomId = RoomIdOf(Self, "ONE_ON_ONE")

\* ------------------------------------------------------------------ claims: routing of messages
\* The roomId of a stored message is one a feed subscribes to and is not
\* empty: a session message carries a session id.
C39_WrittenRoomIds ==
    \A m \in messages :
        /\ \E r \in RoomTypes : m.roomId = [RoomIdOf(m.sender, r) EXCEPT !.session = m.roomId.session]
        /\ m.roomId.scope = "session" => m.roomId.session # NoSession

\* Two clients that show each other as partner read and write the same roomId.
C39_PartnersShareRoom ==
    \A u, v \in Users :
        (oneOnOne[u].connectedPartner = v /\ oneOnOne[v].connectedPartner = u) =>
            RoomIdOf(u, "ONE_ON_ONE") = RoomIdOf(v, "ONE_ON_ONE")

\* C39: a message is written with the roomId the feed of its room subscribes
\* to, never with an empty roomId, and the two participants of a session use
\* the same roomId, so that each receives the other's messages.
C39_RoutingConsistent == C39_WrittenRoomIds /\ C39_PartnersShareRoom
====
